---- MODULE Spec2Model ----
(***************************************************************************)
(* VirtualiZarr: the HDF5 filter -> numcodecs codec resolver               *)
(* (virtualizarr/readers/hdf_filters.py), the CF scale/offset deriver of   *)
(* the same file, and the chunk manifest operations the integration tests  *)
(* exercise.                                                               *)
(*                                                                         *)
(* Python values of more than one type are tagged records: [t |-> "none"]  *)
(* is None, [t |-> "int", v |-> 4] an int, [t |-> "str", v |-> "gzip"] a    *)
(* str, [t |-> "tuple", v |-> <<...>>] a tuple.  A local variable that was *)
(* never assigned is Unbound.                                              *)
(***************************************************************************)
EXTENDS Integers, Sequences, FiniteSets, TLC

----------------------------------------------------------------------------
(* Bounds of the model *)

\* longest filter parameter tuple handed to _filter_to_codec directly
MaxTupleLen == 5
\* largest scalar filter parameter (a gzip level)
MaxLevel == 4
\* longest filter pipeline of a dataset
MaxFilters == 2
\* largest numerator of a scale_factor or add_offset attribute
MaxNum == 5

----------------------------------------------------------------------------
(* Python values *)

PyNone == [t |-> "none"]
PyInt(n) == [t |-> "int", v |-> n]
PyStr(s) == [t |-> "str", v |-> s]
PyTuple(s) == [t |-> "tuple", v |-> s]
Unbound == [t |-> "unbound"]

\* bool(x) as `if x:` takes it
Truthy(x) ==
    CASE x.t = "none" -> FALSE
      [] x.t = "int" -> x.v # 0
      [] x.t = "str" -> x.v # ""
      [] x.t = "tuple" -> x.v # <<>>

Ok(c) == [kind |-> "ok", codec |-> c]
Raise(e) == [kind |-> "raise", error |-> e]
Pending == [kind |-> "pending"]

----------------------------------------------------------------------------
(* The inputs of _filter_to_codec *)

\* filter ids as h5py reports them (a name, or str(code)), and the edge cases
FilterIds ==
    {"gzip", "zlib", "shuffle", "lzf", "", "0", "32001", "032001", "32015",
     "99", "-1"}

\* the characters of a filter id (TLC cannot take a string apart)
Chars(s) ==
    CASE s = "gzip" -> <<"g", "z", "i", "p">>
      [] s = "zlib" -> <<"z", "l", "i", "b">>
      [] s = "shuffle" -> <<"s", "h", "u", "f", "f", "l", "e">>
      [] s = "lzf" -> <<"l", "z", "f">>
      [] s = "" -> <<>>
      [] s = "0" -> <<"0">>
      [] s = "32001" -> <<"3", "2", "0", "0", "1">>
      [] s = "032001" -> <<"0", "3", "2", "0", "0", "1">>
      [] s = "32015" -> <<"3", "2", "0", "1", "5">>
      [] s = "99" -> <<"9", "9">>
      [] s = "-1" -> <<"-", "1">>

\* the raw integers a parameter tuple is made of
TupleVals == {0, 1, 5, 9}
Tuples == UNION {[1..n -> TupleVals] : n \in 0..MaxTupleLen}
FilterProperties ==
    {PyNone} \cup {PyInt(l) : l \in 0..MaxLevel} \cup {PyTuple(s) : s \in Tuples}

----------------------------------------------------------------------------
(* int(filter_id) *)

Digits == {"0", "1", "2", "3", "4", "5", "6", "7", "8", "9"}
DigitValue(c) ==
    CASE c = "0" -> 0 [] c = "1" -> 1 [] c = "2" -> 2 [] c = "3" -> 3
      [] c = "4" -> 4 [] c = "5" -> 5 [] c = "6" -> 6 [] c = "7" -> 7
      [] c = "8" -> 8 [] c = "9" -> 9

RECURSIVE DigitsValue(_)
DigitsValue(s) ==
    IF s = <<>> THEN 0
    ELSE 10 * DigitsValue(SubSeq(s, 1, Len(s) - 1)) + DigitValue(s[Len(s)])

Unsigned(s) == IF Len(s) > 0 /\ s[1] \in {"-", "+"} THEN Tail(s) ELSE s

\* int(s) succeeds: an optional sign, then one digit or more (the ids above
\* hold no blank and no underscore, which int() would also take)
ParsesAsInt(s) ==
    LET u == Unsigned(Chars(s))
    IN  Len(u) > 0 /\ \A i \in 1..Len(u) : u[i] \in Digits

IntValue(s) ==
    LET c == Chars(s)
    IN  IF Len(c) > 0 /\ c[1] = "-" THEN 0 - DigitsValue(Unsigned(c))
        ELSE DigitsValue(Unsigned(c))

\* lines 38-43: (id_int, id_str) after the try/except
ParseId(s) ==
    IF ParsesAsInt(s)
    THEN [id_int |-> PyInt(IntValue(s)), id_str |-> PyNone]
    ELSE [id_int |-> PyNone, id_str |-> PyStr(s)]

----------------------------------------------------------------------------
(* The lookup tables *)

\* _non_standard_filters as the module sets it
NonStandardFilters0 == "gzip" :> "zlib"

\* hdf5plugin's Blosc compressor table, name -> code
Compressions0 ==
    [n \in {"blosclz", "lz4", "lz4hc", "snappy", "zlib", "zstd"} |->
        CASE n = "blosclz" -> 0 [] n = "lz4" -> 1 [] n = "lz4hc" -> 2
          [] n = "snappy" -> 3 [] n = "zlib" -> 4 [] n = "zstd" -> 5]

\* the dict comprehension of get_cname_from_code: code -> name
Invert(t) ==
    [c \in {t[k] : k \in DOMAIN t} |-> CHOOSE k \in DOMAIN t : t[k] = c]

\* hdf5plugin.get_filters(id)[0].filter_name for the filters it ships
PluginFilterName ==
    [i \in {32001, 32015, 32004, 32008} |->
        CASE i = 32001 -> "blosc" [] i = 32015 -> "zstd"
          [] i = 32004 -> "lz4" [] i = 32008 -> "bshuf"]

\* the codec ids numcodecs' registry resolves
RegistryIds == {"zlib", "gzip", "blosc", "shuffle", "zstd", "lz4", "bz2"}

----------------------------------------------------------------------------
(* The steps of _filter_to_codec as functions *)

\* the id kept as it is, the alias table not consulted
NormalizeIdMut(table, s) == s
\* lines 46-49: the alias table applied to a string id
NormalizeId(table, s) == IF s \in DOMAIN table THEN table[s] ELSE s

\* lines 50-52: the descriptor of a string filter id
StrConf(table, s, props) ==
    LET nid == NormalizeId(table, s)
    IN  IF nid = "zlib" THEN [id |-> nid, level |-> props] ELSE [id |-> nid]

\* filter_properties[:4], the first four
LastFourMut(p) == IF Len(p) <= 4 THEN p ELSE SubSeq(p, 1, 4)
\* line 61: filter_properties[-4:]
LastFour(p) == IF Len(p) <= 4 THEN p ELSE SubSeq(p, Len(p) - 3, Len(p))

BloscFields == <<"blocksize", "clevel", "shuffle", "cname">>

\* lines 58-63: zip(BloscProperties.__fields__.keys(), filter_properties[-4:])
BloscKwargs(p) ==
    LET l == LastFour(p)
        k == IF Len(l) < Len(BloscFields) THEN Len(l) ELSE Len(BloscFields)
    IN  [f \in {BloscFields[i] : i \in 1..k} |->
            l[CHOOSE i \in 1..k : BloscFields[i] = f]]

\* lines 15-27, 57-66: BloscProperties(**kwargs).model_dump(), then conf["id"].
\* A missing field fails pydantic's validation; the cname validator runs the
\* reverse lookup, whose KeyError is not one pydantic wraps.
BloscConf(compressions, name, p) ==
    LET kw == BloscKwargs(p)
        codes == Invert(compressions)
    IN  IF DOMAIN kw # {BloscFields[i] : i \in 1..Len(BloscFields)}
        THEN Raise("ValidationError")
        ELSE IF kw["cname"] \notin DOMAIN codes
        THEN Raise("KeyError")
        ELSE Ok([blocksize |-> kw["blocksize"], clevel |-> kw["clevel"],
                 shuffle |-> kw["shuffle"], cname |-> codes[kw["cname"]],
                 id |-> name])

\* line 68: registry.get_codec(conf); the codec is stood for by its config
GetCodec(c) ==
    IF c = Unbound THEN Raise("UnboundLocalError")
    ELSE IF c.id \in RegistryIds THEN Ok(c)
    ELSE Raise("UnknownCodecError")

\* lines 53-66: what the numeric branch leaves: a descriptor, none, or a raise
IntConf(compressions, n, props) ==
    IF n \notin DOMAIN PluginFilterName THEN Raise("ValueError")
    ELSE IF PluginFilterName[n] = "blosc" /\ props.t = "tuple"
    THEN BloscConf(compressions, PluginFilterName[n], props.v)
    ELSE Ok(Unbound)

\* lines 35-69: the whole call as a function of its arguments and the tables
FilterToCodec(table, compressions, s, props) ==
    LET p == ParseId(s)
        c1 == IF Truthy(p.id_str) THEN StrConf(table, p.id_str.v, props)
              ELSE Unbound
        r2 == IF Truthy(p.id_int) THEN IntConf(compressions, p.id_int.v, props)
              ELSE Ok(c1)
    IN  IF r2.kind = "raise" THEN r2
        ELSE GetCodec(IF r2.codec = Unbound THEN c1 ELSE r2.codec)

----------------------------------------------------------------------------
(* The filter pipelines of a dataset: dataset._filters, an ordered dict *)

PipelinePairs ==
    {[id |-> "gzip", props |-> PyInt(4)],
     [id |-> "shuffle", props |-> PyTuple(<<1>>)],
     [id |-> "32001", props |-> PyTuple(<<2, 2, 4, 0, 5, 1, 5>>)],
     [id |-> "lzf", props |-> PyNone],
     [id |-> "32015", props |-> PyTuple(<<5>>)]}

Pipelines ==
    {s \in UNION {[1..n -> PipelinePairs] : n \in 0..MaxFilters} :
        \A i, j \in 1..Len(s) : s[i].id = s[j].id => i = j}

\* codecs.insert(0, codec)
AppendCodecMut(cs, c) == <<c>> \o cs
\* line 102: codecs.append(codec)
AppendCodec(cs, c) == Append(cs, c)

----------------------------------------------------------------------------
(* cfcodec_from_dataset: numbers are exact fractions n/d; 1/0 is numpy's inf, *)
(* the fraction 1/0.  An attribute is the one-element array netCDF4 stores.   *)

Rat(n, d) == [n |-> n, d |-> d]
Inf == Rat(1, 0)
RatEq(a, b) == a.n * b.d = b.n * a.d

PyNum(r) == [t |-> "num", v |-> r]
PyArray(s) == [t |-> "array", v |-> s]

Dens == {1, 2, 100}
AttrValues == {Rat(n, d) : n \in (0 - 1)..MaxNum, d \in Dens}
AttrNames == {"scale_factor", "add_offset"}
AttributeSets ==
    UNION {[D -> {PyArray(<<r>>) : r \in AttrValues}] : D \in SUBSET AttrNames}
RawDtypes == {"int8", "int16", "int32", "float32"}
\* what xarray's _choose_float_dtype can answer
FloatDtypes == {"float32", "float64"}

\* the attribute itself, not its reciprocal
OneOverMut(r) == r
\* line 76: 1 / x
OneOver(r) ==
    IF r.n = 0 THEN Inf
    ELSE IF r.n > 0 THEN Rat(r.d, r.n)
    ELSE Rat(0 - r.d, 0 - r.n)

\* lines 74-82
CFMapping(attrs) ==
    [scale_factor |->
        IF "scale_factor" \in DOMAIN attrs
        THEN PyNum(OneOver(attrs["scale_factor"].v[1]))
        ELSE PyNum(Rat(1, 1)),
     add_offset |->
        IF "add_offset" \in DOMAIN attrs
        THEN attrs["add_offset"]
        ELSE PyNum(Rat(0, 1))]

\* the truth value of `x != c`, x a number or a one-element array
NotEqual(x, c) ==
    IF x.t = "array" THEN ~RatEq(x.v[1], c) ELSE ~RatEq(x.v, c)

\* `and` in place of `or`
NeedsTransformMut(m) ==
    NotEqual(m.scale_factor, Rat(1, 1)) /\ NotEqual(m.add_offset, Rat(0, 1))
\* line 83
NeedsTransform(m) ==
    NotEqual(m.scale_factor, Rat(1, 1)) \/ NotEqual(m.add_offset, Rat(0, 1))

\* lines 86-91
FixedScaleOffset(offset, scale, dtype, astype) ==
    [id |-> "fixedscaleoffset", offset |-> offset, scale |-> scale,
     dtype |-> dtype, astype |-> astype]

----------------------------------------------------------------------------
(* The chunk manifest (virtualizarr.manifests), as the specification gives   *)
(* it: keys are tuples of chunk-grid coordinates, a chunk reference record   *)
(* is keyed by their dot-joined decimal form.  A key string is a sequence of *)
(* characters.                                                               *)

\* the characters of the keys of a chunk reference record, all together
MaxRecordChars == 6
\* the chunk-grid extent of a concatenated array along each axis
MaxExtent == 2
\* the number of arrays concatenated in a row
MaxParts == 2

KeyAlphabet == {"0", "1", "."}
KeyStrings(n) == UNION {[1..m -> KeyAlphabet] : m \in 1..n}

RawEntries ==
    {[path |-> "foo.nc", offset |-> 100, length |-> 100],
     [path |-> "bar.nc", offset |-> 0, length |-> 50],
     [path |-> "foo.nc", offset |-> 0 - 1, length |-> 100]}

RECURSIVE SplitDots(_)
SplitDots(s) ==
    IF \A i \in 1..Len(s) : s[i] # "." THEN <<s>>
    ELSE LET i == CHOOSE i \in 1..Len(s) :
                    s[i] = "." /\ \A j \in 1..(i - 1) : s[j] # "."
         IN  <<SubSeq(s, 1, i - 1)>> \o SplitDots(SubSeq(s, i + 1, Len(s)))

IsNumeral(c) == Len(c) > 0 /\ \A i \in 1..Len(c) : c[i] \in Digits

Invalid == [t |-> "error", error |-> "ValidationError"]

\* a key string whose every component is an integer
KeyParses(s) == \A i \in 1..Len(SplitDots(s)) : IsNumeral(SplitDots(s)[i])

\* a key string -> a ChunkKey
ParseKey(s) ==
    LET cs == SplitDots(s)
    IN  [i \in 1..Len(cs) |-> DigitsValue(cs[i])]

DigitChar(n) ==
    CASE n = 0 -> "0" [] n = 1 -> "1" [] n = 2 -> "2" [] n = 3 -> "3"
      [] n = 4 -> "4" [] n = 5 -> "5" [] n = 6 -> "6" [] n = 7 -> "7"
      [] n = 8 -> "8" [] n = 9 -> "9"

\* the last digit alone
FormatIntMut(n) == <<DigitChar(n % 10)>>
\* str(n), n >= 0
RECURSIVE FormatInt(_)
FormatInt(n) ==
    IF n < 10 THEN <<DigitChar(n)>>
    ELSE FormatInt(n \div 10) \o <<DigitChar(n % 10)>>

\* a ChunkKey -> its canonical string form
RECURSIVE FormatKey(_)
FormatKey(k) ==
    IF Len(k) = 1 THEN FormatInt(k[1])
    ELSE FormatKey(SubSeq(k, 1, Len(k) - 1)) \o <<".">> \o FormatInt(k[Len(k)])

ValidEntry(e) == e.path # "" /\ e.offset >= 0 /\ e.length >= 0

\* from_entries: every key parsed, every entry checked
FromEntries(raw) ==
    LET keys == DOMAIN raw
    IN  IF \/ \E s \in keys : ~KeyParses(s)
           \/ \E s \in keys : ~ValidEntry(raw[s])
        THEN Invalid
        ELSE IF \/ \E s1, s2 \in keys : Len(ParseKey(s1)) # Len(ParseKey(s2))
                \/ \E s1, s2 \in keys : s1 # s2 /\ ParseKey(s1) = ParseKey(s2)
        THEN Invalid
        ELSE [t |-> "manifest",
              entries |-> [k \in {ParseKey(s) : s \in keys} |->
                              raw[CHOOSE s \in keys : ParseKey(s) = k]]]

\* to_record: the manifest under its keys' string forms
ToRecord(m) ==
    [s \in {FormatKey(k) : k \in DOMAIN m.entries} |->
        m.entries[CHOOSE k \in DOMAIN m.entries : FormatKey(k) = s]]

\* the chunk keys of a grid of the given extents, two axes
Axes == {1, 2}
GridKeys(grid) ==
    {<<i, j>> : i \in 0..(grid[1] - 1), j \in 0..(grid[2] - 1)}

\* the chunk at key k of the file at path p
EntryAt(p, k) ==
    [path |-> p, offset |-> 1000 * k[1] + 100 * k[2], length |-> 100]

\* the manifests of an array of chunk-grid extents `grid` stored in one file:
\* every chunk written, or one left out
ArrayManifests(grid) ==
    {[grid |-> grid, entries |-> [k \in ks |-> EntryAt(p, k)]] :
        p \in {"a.nc", "b.nc"},
        ks \in {GridKeys(grid)} \cup {GridKeys(grid) \ {k} : k \in GridKeys(grid)}}

\* a key moved along the first axis, whatever ax is
ShiftKeyMut(k, ax, by) == [k EXCEPT ![1] = @ + by]
\* a key moved by `by` chunks along axis ax
ShiftKey(k, ax, by) == [k EXCEPT ![ax] = @ + by]

\* concat(other, axis)
ConcatManifests(self, other, ax) ==
    LET by == self.grid[ax]
        moved == [k \in {ShiftKey(k0, ax, by) : k0 \in DOMAIN other.entries} |->
                     other.entries[ShiftKey(k, ax, 0 - by)]]
    IN  IF Len(self.grid) # Len(other.grid) THEN Invalid
        ELSE IF \E k \in DOMAIN self.entries \cap DOMAIN moved :
                    self.entries[k] # moved[k]
        THEN Invalid
        ELSE [grid |-> [self.grid EXCEPT ![ax] = @ + other.grid[ax]],
              entries |-> [k \in DOMAIN self.entries \cup DOMAIN moved |->
                              IF k \in DOMAIN self.entries THEN self.entries[k]
                              ELSE moved[k]]]

----------------------------------------------------------------------------
VARIABLES
    pc,                    \* where control is
    caller,                \* who called _filter_to_codec
    filter_id, filter_properties,
    id_int, id_str, id, conf,
    path,                  \* the branches of _filter_to_codec this call took
    outcome,               \* what the running call returned or raised
    non_standard_filters,  \* the module's alias table
    COMPRESSIONS,          \* hdf5plugin's compressor table
    filters, codecs, idx,  \* codecs_from_dataset: the pipeline, the list, the loop
    seen,                  \* an earlier call: its arguments and its outcome
    attributes, dtype, mapping, cfcodec,   \* cfcodec_from_dataset
    raw, manifest, exported,               \* a chunk reference record's round trip
    axis, parts, acc                       \* a run of concatenations

tables == <<non_standard_filters, COMPRESSIONS>>
callArgs == <<filter_id, filter_properties>>
callLocals == <<id_int, id_str, id, conf, path, outcome>>
datasetLocals == <<filters, codecs, idx>>
filterVars == <<caller, callArgs, callLocals, datasetLocals>>
cfVars == <<attributes, dtype, mapping, cfcodec>>
recordVars == <<raw, manifest, exported>>
concatVars == <<axis, parts, acc>>

vars == <<pc, tables, filterVars, seen, cfVars, recordVars, concatVars>>

NoCall == [t |-> "none"]
NoRecord == [t |-> "none"]

Init ==
    /\ pc = "idle" /\ caller = "none"
    /\ non_standard_filters = NonStandardFilters0
    /\ COMPRESSIONS = Compressions0
    /\ filter_id = "" /\ filter_properties = PyNone
    /\ id_int = PyNone /\ id_str = PyNone /\ id = Unbound /\ conf = Unbound
    /\ path = {} /\ outcome = Pending
    /\ filters = <<>> /\ codecs = <<>> /\ idx = 0
    /\ seen = NoCall
    /\ attributes = <<>> /\ dtype = "" /\ mapping = Unbound /\ cfcodec = Unbound
    /\ raw = NoRecord /\ manifest = NoRecord /\ exported = NoRecord
    /\ axis = 0 /\ parts = <<>> /\ acc = NoRecord

----------------------------------------------------------------------------
(* _filter_to_codec, lines 35-69 *)

\* a direct call
CallFilterToCodec ==
    /\ pc = "idle"
    /\ \E s \in FilterIds, p \in FilterProperties :
        /\ filter_id' = s
        /\ filter_properties' = p
    /\ caller' = "direct"
    /\ pc' = "f_parse"
    /\ UNCHANGED <<tables, callLocals, datasetLocals, seen, cfVars, recordVars,
                   concatVars>>

\* lines 38-43
TryInt ==
    /\ pc = "f_parse"
    /\ id_int' = ParseId(filter_id).id_int
    /\ id_str' = ParseId(filter_id).id_str
    /\ pc' = "f_str"
    /\ seen' = IF seen # NoCall /\ <<seen.id, seen.props>> # <<filter_id, filter_properties>>
               THEN [seen EXCEPT !.between = TRUE]
               ELSE seen
    /\ UNCHANGED <<caller, callArgs, id, conf, path, outcome, tables,
                   datasetLocals, cfVars, recordVars, concatVars>>

\* lines 45-52 with _non_standard_filters.pop(id_str) for the lookup
StrBranchPop ==
    /\ pc = "f_str"
    /\ IF Truthy(id_str)
       THEN /\ id' = NormalizeId(non_standard_filters, id_str.v)
            /\ conf' = StrConf(non_standard_filters, id_str.v, filter_properties)
            /\ path' = path \cup {"str"}
            /\ non_standard_filters' =
                 [s \in DOMAIN non_standard_filters \ {id_str.v} |->
                     non_standard_filters[s]]
       ELSE UNCHANGED <<id, conf, path, non_standard_filters>>
    /\ pc' = "f_int"
    /\ UNCHANGED <<caller, callArgs, id_int, id_str, outcome, COMPRESSIONS,
                   datasetLocals, seen, cfVars, recordVars, concatVars>>
\* lines 45-52
StrBranch ==
    /\ pc = "f_str"
    /\ IF Truthy(id_str)
       THEN /\ id' = NormalizeId(non_standard_filters, id_str.v)
            /\ conf' = StrConf(non_standard_filters, id_str.v, filter_properties)
            /\ path' = path \cup {"str"}
       ELSE UNCHANGED <<id, conf, path>>
    /\ pc' = "f_int"
    /\ UNCHANGED <<caller, callArgs, id_int, id_str, outcome, tables,
                   datasetLocals, seen, cfVars, recordVars, concatVars>>

\* lines 53-66
IntBranch ==
    /\ pc = "f_int"
    /\ IF Truthy(id_int)
       THEN LET r == IntConf(COMPRESSIONS, id_int.v, filter_properties)
            IN  /\ path' = path \cup {"int"}
                /\ IF r.kind = "raise"
                   THEN /\ outcome' = r
                        /\ pc' = "f_done"
                        /\ id' = IF id_int.v \in DOMAIN PluginFilterName
                                 THEN PluginFilterName[id_int.v] ELSE id
                        /\ UNCHANGED conf
                   ELSE /\ id' = PluginFilterName[id_int.v]
                        /\ conf' = IF r.codec = Unbound THEN conf ELSE r.codec
                        /\ pc' = "f_lookup"
                        /\ UNCHANGED outcome
       ELSE /\ pc' = "f_lookup"
            /\ UNCHANGED <<id, conf, path, outcome>>
    /\ UNCHANGED <<caller, callArgs, id_int, id_str, tables, datasetLocals, seen,
                   cfVars, recordVars, concatVars>>

\* lines 68-69
RegistryLookup ==
    /\ pc = "f_lookup"
    /\ outcome' = GetCodec(conf)
    /\ pc' = "f_done"
    /\ UNCHANGED <<caller, callArgs, id_int, id_str, id, conf, path, tables,
                   datasetLocals, seen, cfVars, recordVars, concatVars>>

----------------------------------------------------------------------------
(* codecs_from_dataset, lines 98-103 *)

CallCodecsFromDataset ==
    /\ pc = "idle"
    /\ \E fs \in Pipelines : filters' = fs
    /\ codecs' = <<>>
    /\ idx' = 1
    /\ caller' = "codecs_from_dataset"
    /\ pc' = "d_loop"
    /\ UNCHANGED <<callArgs, callLocals, tables, seen, cfVars, recordVars,
                   concatVars>>

\* lines 100-101: the next item of dataset._filters, and the call on it
LoopCall ==
    /\ pc = "d_loop"
    /\ idx <= Len(filters)
    /\ filter_id' = filters[idx].id
    /\ filter_properties' = filters[idx].props
    /\ id_int' = PyNone /\ id_str' = PyNone /\ id' = Unbound /\ conf' = Unbound
    /\ path' = {} /\ outcome' = Pending
    /\ pc' = "f_parse"
    /\ UNCHANGED <<caller, tables, datasetLocals, seen, cfVars, recordVars,
                   concatVars>>

\* line 102
LoopAppend ==
    /\ pc = "f_done"
    /\ caller = "codecs_from_dataset"
    /\ outcome.kind = "ok"
    /\ codecs' = AppendCodec(codecs, outcome.codec)
    /\ idx' = idx + 1
    /\ pc' = "d_loop"
    /\ UNCHANGED <<caller, callArgs, callLocals, tables, filters, seen, cfVars,
                   recordVars, concatVars>>

\* the call raised: the exception leaves codecs_from_dataset too
LoopRaise ==
    /\ pc = "f_done"
    /\ caller = "codecs_from_dataset"
    /\ outcome.kind = "raise"
    /\ pc' = "d_raised"
    /\ UNCHANGED <<caller, callArgs, callLocals, tables, datasetLocals, seen,
                   cfVars, recordVars, concatVars>>

\* line 103
LoopReturn ==
    /\ pc = "d_loop"
    /\ idx > Len(filters)
    /\ pc' = "d_done"
    /\ UNCHANGED <<caller, callArgs, callLocals, tables, datasetLocals, seen,
                   cfVars, recordVars, concatVars>>

----------------------------------------------------------------------------
(* cfcodec_from_dataset, lines 72-95 *)

CallCFCodec ==
    /\ pc = "idle"
    /\ \E a \in AttributeSets, d \in RawDtypes :
        /\ attributes' = a
        /\ dtype' = d
    /\ pc' = "cf_mapping"
    /\ UNCHANGED <<mapping, cfcodec, tables, filterVars, seen, recordVars,
                   concatVars>>

\* lines 73-82
BuildMapping ==
    /\ pc = "cf_mapping"
    /\ mapping' = CFMapping(attributes)
    /\ pc' = "cf_branch"
    /\ UNCHANGED <<attributes, dtype, cfcodec, tables, filterVars, seen,
                   recordVars, concatVars>>

\* lines 83-95; the float dtype is the one _choose_float_dtype picks
BuildCFCodec ==
    /\ pc = "cf_branch"
    /\ IF NeedsTransform(mapping)
       THEN \E target_dtype \in FloatDtypes :
               cfcodec' =
                 [target_dtype |-> target_dtype,
                  codec |-> FixedScaleOffset(mapping.add_offset,
                                             mapping.scale_factor.v,
                                             target_dtype, dtype)]
       ELSE cfcodec' = PyNone
    /\ pc' = "cf_done"
    /\ UNCHANGED <<attributes, dtype, mapping, tables, filterVars, seen,
                   recordVars, concatVars>>

----------------------------------------------------------------------------
(* A chunk reference record read, built into a manifest, and exported *)

\* the reader hands over a record's first entry
ReadEntry ==
    /\ pc = "idle"
    /\ \E k \in KeyStrings(MaxRecordChars), e \in RawEntries : raw' = (k :> e)
    /\ pc' = "m_raw"
    /\ UNCHANGED <<manifest, exported, tables, filterVars, seen, cfVars,
                   concatVars>>

RecordChars(r) ==
    LET RECURSIVE Sum(_)
        Sum(S) == IF S = {} THEN 0
                  ELSE LET s == CHOOSE s \in S : TRUE
                       IN  Len(s) + Sum(S \ {s})
    IN  Sum(DOMAIN r)

\* ... and one more
ReadAnotherEntry ==
    /\ pc = "m_raw"
    /\ RecordChars(raw) < MaxRecordChars
    /\ \E k \in KeyStrings(MaxRecordChars - RecordChars(raw)), e \in RawEntries :
        /\ k \notin DOMAIN raw
        /\ raw' = raw @@ (k :> e)
    /\ UNCHANGED <<pc, manifest, exported, tables, filterVars, seen, cfVars,
                   concatVars>>

BuildManifest ==
    /\ pc = "m_raw"
    /\ manifest' = FromEntries(raw)
    /\ pc' = "m_built"
    /\ UNCHANGED <<raw, exported, tables, filterVars, seen, cfVars, concatVars>>

ExportRecord ==
    /\ pc = "m_built"
    /\ manifest # Invalid
    /\ exported' = ToRecord(manifest)
    /\ pc' = "m_exported"
    /\ UNCHANGED <<raw, manifest, tables, filterVars, seen, cfVars, concatVars>>

----------------------------------------------------------------------------
(* Manifests concatenated along one axis, one after the other *)

FirstOperand ==
    /\ pc = "idle"
    /\ \E ax \in Axes, grid \in [Axes -> 1..MaxExtent] :
        \E m \in ArrayManifests(grid) :
            /\ axis' = ax
            /\ acc' = m
            /\ parts' = <<m>>
    /\ pc' = "c_acc"
    /\ UNCHANGED <<tables, filterVars, seen, cfVars, recordVars>>

Concat ==
    /\ pc = "c_acc"
    /\ acc # Invalid
    /\ Len(parts) < MaxParts
    /\ \E e \in 1..MaxExtent :
        \E m \in ArrayManifests([acc.grid EXCEPT ![axis] = e]) :
            /\ acc' = ConcatManifests(acc, m, axis)
            /\ parts' = Append(parts, m)
    /\ UNCHANGED <<pc, axis, tables, filterVars, seen, cfVars, recordVars>>

----------------------------------------------------------------------------
\* the caller has its result (or its exception); the locals are gone
Return ==
    /\ \/ pc = "f_done" /\ caller = "direct"
       \/ pc \in {"d_done", "d_raised", "cf_done", "m_built", "m_exported",
                  "c_acc"}
    /\ pc' = "idle"
    /\ caller' = "none"
    /\ filter_id' = "" /\ filter_properties' = PyNone
    /\ id_int' = PyNone /\ id_str' = PyNone /\ id' = Unbound /\ conf' = Unbound
    /\ path' = {} /\ outcome' = Pending
    /\ filters' = <<>> /\ codecs' = <<>> /\ idx' = 0
    /\ attributes' = <<>> /\ dtype' = "" /\ mapping' = Unbound
    /\ cfcodec' = Unbound
    /\ raw' = NoRecord /\ manifest' = NoRecord /\ exported' = NoRecord
    /\ axis' = 0 /\ parts' = <<>> /\ acc' = NoRecord
    /\ UNCHANGED <<tables, seen>>

Next ==
    \/ CallFilterToCodec
    \/ TryInt
    \/ StrBranch
    \/ IntBranch
    \/ RegistryLookup
    \/ CallCodecsFromDataset
    \/ LoopCall
    \/ LoopAppend
    \/ LoopRaise
    \/ LoopReturn
    \/ CallCFCodec
    \/ BuildMapping
    \/ BuildCFCodec
    \/ ReadEntry
    \/ ReadAnotherEntry
    \/ BuildManifest
    \/ ExportRecord
    \/ FirstOperand
    \/ Concat
    \/ Return

Spec == Init /\ [][Next]_vars

----------------------------------------------------------------------------
(* Calls repeated: the arguments come from a smaller set, and one completed   *)
(* call is remembered to compare the later ones with.                         *)

RepeatProperties ==
    {PyNone, PyInt(4), PyTuple(<<5>>), PyTuple(<<0, 5, 1, 5>>),
     PyTuple(<<0, 5, 1, 9>>)}

CallAgain ==
    /\ pc = "idle"
    /\ \E s \in FilterIds, p \in RepeatProperties :
        /\ filter_id' = s
        /\ filter_properties' = p
    /\ caller' = "direct"
    /\ pc' = "f_parse"
    /\ UNCHANGED <<tables, callLocals, datasetLocals, seen, cfVars, recordVars,
                   concatVars>>

Remember ==
    /\ pc = "f_done"
    /\ seen = NoCall
    /\ seen' = [id |-> filter_id, props |-> filter_properties,
                outcome |-> outcome, between |-> FALSE]
    /\ UNCHANGED <<pc, tables, filterVars, cfVars, recordVars, concatVars>>

NextRepeat ==
    \/ CallAgain
    \/ TryInt
    \/ StrBranch
    \/ IntBranch
    \/ RegistryLookup
    \/ CallCodecsFromDataset
    \/ LoopCall
    \/ LoopAppend
    \/ LoopRaise
    \/ LoopReturn
    \/ Remember
    \/ Return

SpecRepeat == Init /\ [][NextRepeat]_vars

----------------------------------------------------------------------------
(* The claims *)

\* the compressor names by code, as hdf5plugin numbers them
CompressorNames == <<"blosclz", "lz4", "lz4hc", "snappy", "zlib", "zstd">>

IsBloscCall ==
    /\ ParsesAsInt(filter_id)
    /\ IntValue(filter_id) \in DOMAIN PluginFilterName
    /\ PluginFilterName[IntValue(filter_id)] = "blosc"
    /\ filter_properties.t = "tuple"
    /\ Len(filter_properties.v) >= 4
    /\ filter_properties.v[Len(filter_properties.v)] + 1 \in DOMAIN CompressorNames

(* C1: a numeric filter id the plugin registry resolves to "blosc", with a  *)
(* parameter tuple p of four elements or more whose last is a known         *)
(* compressor code, gives the codec {id: "blosc", blocksize: p[-4],         *)
(* clevel: p[-3], shuffle: p[-2], cname: the name of code p[-1]}; nothing   *)
(* before the last four elements of p enters the result.                    *)
C1_BloscDescriptor ==
    (pc = "f_done" /\ IsBloscCall) =>
        LET p == filter_properties.v
            n == Len(p)
        IN  outcome = Ok([id |-> "blosc", blocksize |-> p[n - 3],
                          clevel |-> p[n - 2], shuffle |-> p[n - 1],
                          cname |-> CompressorNames[p[n] + 1]])

C1_Witness ==
    /\ pc = "f_done"
    /\ filter_id = "32001"
    /\ filter_properties = PyTuple(<<9, 0, 5, 1, 5>>)
    /\ outcome = Ok([id |-> "blosc", blocksize |-> 0, clevel |-> 5,
                     shuffle |-> 1, cname |-> "zstd"])

C3_OnlyLookupErrors ==
    pc = "f_done" =>
        \/ outcome.kind = "ok" /\ outcome.codec.id \in RegistryIds
        \/ /\ outcome.kind = "raise"
           /\ outcome.error \in {"LookupError", "KeyError", "UnknownCodecError"}

(* C10: when _filter_to_codec queries the codec registry it has built a     *)
(* descriptor on exactly one of its two paths: the numeric path for an id   *)
(* that parses as an integer ("0" too), the string path for every other id  *)
(* (the empty string too).                                                  *)
C10_OnePathThenLookup ==
    pc = "f_lookup" =>
        /\ conf # Unbound
        /\ path = (IF ParsesAsInt(filter_id) THEN {"int"} ELSE {"str"})

(* C4: codecs_from_dataset returns one codec per filter of the dataset, in  *)
(* the order of the pipeline: the i-th codec is _filter_to_codec of the     *)
(* i-th (id, parameters) pair.                                              *)
C4_OneCodecPerFilterInOrder ==
    pc = "d_done" =>
        /\ Len(codecs) = Len(filters)
        /\ \A i \in 1..Len(filters) :
            Ok(codecs[i]) = FilterToCodec(NonStandardFilters0, Compressions0,
                                          filters[i].id, filters[i].props)

C4_Witness ==
    /\ pc = "d_done"
    /\ Len(filters) = 2
    /\ filters[1].id = "32001"
    /\ filters[2].id = "gzip"
    /\ codecs[1].id = "blosc"
    /\ codecs[2].id = "zlib"

(* C9: no step of any run of _filter_to_codec and codecs_from_dataset calls *)
(* changes the alias table or the compressor table, and a call that repeats *)
(* the arguments of an earlier call ends as that call did, whatever was     *)
(* called in between.                                                       *)
C9_PureAndDeterministic ==
    [][/\ non_standard_filters' = non_standard_filters
       /\ COMPRESSIONS' = COMPRESSIONS
       /\ (/\ pc' = "f_done"
           /\ seen' # NoCall
           /\ seen'.id = filter_id'
           /\ seen'.props = filter_properties') => outcome' = seen'.outcome]_vars

C9_Witness ==
    /\ pc = "f_done"
    /\ seen # NoCall
    /\ seen.between
    /\ seen.id = filter_id
    /\ seen.id = "gzip"
    /\ seen.props = filter_properties
    /\ outcome = seen.outcome
    /\ outcome.kind = "ok"

(* C5: cfcodec_from_dataset returns None exactly when the derived scale is  *)
(* 1 and the derived offset is 0, a missing scale_factor giving scale 1 and *)
(* a missing add_offset giving offset 0.                                    *)
ScaleIsOne ==
    "scale_factor" \in DOMAIN attributes =>
        /\ attributes["scale_factor"].v[1].n = attributes["scale_factor"].v[1].d
        /\ attributes["scale_factor"].v[1].n # 0
OffsetIsZero ==
    "add_offset" \in DOMAIN attributes => attributes["add_offset"].v[1].n = 0

C5_NoneIffIdentity ==
    pc = "cf_done" => (cfcodec = PyNone <=> (ScaleIsOne /\ OffsetIsZero))

C5_Witness ==
    /\ pc = "cf_done"
    /\ cfcodec = PyNone
    /\ DOMAIN attributes = AttrNames
    /\ attributes["scale_factor"].v[1] = Rat(2, 2)

(* C6: a transform cfcodec_from_dataset returns has scale 1/scale_factor[0] *)
(* (1 without scale_factor), offset add_offset (0 without), astype the raw  *)
(* dtype of the dataset and dtype the target_dtype of the same result; with *)
(* scale_factor [0.01] and add_offset [5.0] the scale is 100 and the offset *)
(* 5.                                                                       *)
C6_TransformFields ==
    (pc = "cf_done" /\ cfcodec # PyNone) =>
        LET codec == cfcodec.codec
        IN  /\ IF "scale_factor" \in DOMAIN attributes
               THEN LET sf == attributes["scale_factor"].v[1]
                    IN  IF sf.n = 0 THEN codec.scale = Inf
                        ELSE /\ codec.scale.d # 0
                             /\ codec.scale.n * sf.n = codec.scale.d * sf.d
               ELSE RatEq(codec.scale, Rat(1, 1))
            /\ IF "add_offset" \in DOMAIN attributes
               THEN codec.offset = attributes["add_offset"]
               ELSE codec.offset = PyNum(Rat(0, 1))
            /\ codec.astype = dtype
            /\ codec.dtype = cfcodec.target_dtype
            /\ codec.dtype \in FloatDtypes
            /\ (/\ DOMAIN attributes = AttrNames
                /\ attributes["scale_factor"] = PyArray(<<Rat(1, 100)>>)
                /\ attributes["add_offset"] = PyArray(<<Rat(5, 1)>>))
               => /\ codec.scale = Rat(100, 1)
                  /\ RatEq(codec.offset.v[1], Rat(5, 1))

C6_Witness ==
    /\ pc = "cf_done"
    /\ cfcodec # PyNone
    /\ DOMAIN attributes = AttrNames
    /\ attributes["scale_factor"] = PyArray(<<Rat(1, 100)>>)
    /\ attributes["add_offset"] = PyArray(<<Rat(5, 1)>>)
    /\ dtype = "int16"
    /\ cfcodec.codec.scale = Rat(100, 1)

(* C7: after any run of concatenations along axis k, every entry of the     *)
(* first operand is under its own key, every entry of a later operand is    *)
(* under its key moved along k by the chunk-grid extents of the operands    *)
(* before it and by nothing along the other axis, with its path, offset and *)
(* length as they were; the manifest holds no other key.                    *)
RECURSIVE ExtentBefore(_)
ExtentBefore(j) ==
    IF j = 1 THEN 0 ELSE ExtentBefore(j - 1) + parts[j - 1].grid[axis]

PlaceOf(j, k) ==
    [i \in 1..Len(k) |-> IF i = axis THEN k[i] + ExtentBefore(j) ELSE k[i]]

C7_ConcatShiftsSecondOperand ==
    pc = "c_acc" =>
        /\ acc # Invalid
        /\ \A j \in 1..Len(parts) : \A k \in DOMAIN parts[j].entries :
            /\ PlaceOf(j, k) \in DOMAIN acc.entries
            /\ acc.entries[PlaceOf(j, k)] = parts[j].entries[k]
        /\ DOMAIN acc.entries =
             UNION {{PlaceOf(j, k) : k \in DOMAIN parts[j].entries} :
                        j \in 1..Len(parts)}

C7_Witness ==
    /\ pc = "c_acc"
    /\ Len(parts) = 2
    /\ axis = 2
    /\ parts[1].grid = <<2, 2>>
    /\ <<1, 0>> \in DOMAIN parts[2].entries
    /\ <<1, 2>> \in DOMAIN acc.entries
    /\ acc.entries[<<1, 2>>] = [path |-> "b.nc", offset |-> 1000, length |-> 100]

(* C8: a well-formed chunk reference record (keys the dot-joined decimal    *)
(* forms of chunk coordinates, all of one arity; entries with a path and a  *)
(* non-negative offset and length) builds into a manifest, and the export   *)
(* of that manifest is the record: the same keys, each with the same path,  *)
(* offset and length.                                                       *)
CanonicalKey(s) ==
    /\ Len(s) > 0
    /\ s[1] # "." /\ s[Len(s)] # "."
    /\ \A i \in 1..(Len(s) - 1) :
        /\ ~(s[i] = "." /\ s[i + 1] = ".")
        /\ (s[i] = "0" /\ (i = 1 \/ s[i - 1] = ".")) => s[i + 1] = "."

DotCount(s) == Cardinality({i \in 1..Len(s) : s[i] = "."})

WellFormedRecord(r) ==
    /\ \A s \in DOMAIN r : CanonicalKey(s)
    /\ \A s1, s2 \in DOMAIN r : DotCount(s1) = DotCount(s2)
    /\ \A s \in DOMAIN r : r[s].path # "" /\ r[s].offset >= 0 /\ r[s].length >= 0

C8_RecordRoundTrip ==
    /\ (pc = "m_built" /\ WellFormedRecord(raw)) => manifest # Invalid
    /\ (pc = "m_exported" /\ WellFormedRecord(raw)) =>
        /\ DOMAIN exported = DOMAIN raw
        /\ \A s \in DOMAIN raw : exported[s] = raw[s]

C8_Witness ==
    /\ pc = "m_exported"
    /\ WellFormedRecord(raw)
    /\ DOMAIN raw = {<<"0", ".", "1">>, <<"1", ".", "0">>}
    /\ raw[<<"0", ".", "1">>] # raw[<<"1", ".", "0">>]
    /\ exported = raw

====
